---------------------------- MODULE Spec2Model ----------------------------
(***************************************************************************)
(* Production Breakdown Tool: the document-ingestion and summarization     *)
(* pipeline of src/server.js (the entry point the Dockerfile starts) and   *)
(* of the second express entry point kept in src/unnamed/part_000.         *)
(*                                                                         *)
(* Texts are sequences of one-character strings in the chunker's own       *)
(* state machine; in the request pipeline an extracted text is carried by  *)
(* its length, which is all createContentWithFiles and the handler read.   *)
(***************************************************************************)
EXTENDS Integers, Sequences, FiniteSets, TLC

(***************************************************************************)
(* Program constants (src/server.js, "Config").                            *)
(***************************************************************************)
PDF_TEXT_CHUNK_CHARS == 12000
PDF_TEXT_CHUNK_OVERLAP == 600
MULTIPASS_THRESHOLD_CHARS == 40000
MAX_FILES == 10
VISUAL_FALLBACK_MIN_TEXT_CHARS == 1500
VISUAL_FALLBACK_MAX_CHARS_PER_PAGE == 120
VISUAL_RENDER_MAX_PAGES == 6

(***************************************************************************)
(* Bounds of the model.                                                    *)
(***************************************************************************)
MaxLen == 4        \* longest text handed to chunkText
MaxWin == 3        \* largest chunkSize and overlap handed to chunkText
MaxChunks == 6     \* cap on loop iterations of chunkText (reached only when overlap >= chunkSize)
NumReqs == 2       \* concurrently issued generate requests
MaxFilesPerReq == 2 \* files uploaded with one generate request
MaxTime == 1       \* last value of the millisecond clock
MaxHist == 2       \* longest conversation history sent with a revise request
MaxPages == 20     \* most pages of a PDF in the grid of page counts and text lengths

Min(a, b) == IF a < b THEN a ELSE b
Max(a, b) == IF a > b THEN a ELSE b

(***************************************************************************)
(* State.                                                                  *)
(*   ck    one activation of chunkText                                     *)
(*   entry which entry point the process runs                              *)
(*   env   process environment: API key, pdftoppm on the host,             *)
(*         shape of the pdf-parse module                                   *)
(*   now   Date.now()                                                      *)
(*   dir   the uploads directory: name -> what the file holds              *)
(*   req   the generate requests, one record per request                   *)
(*   rev   one revise request                                              *)
(***************************************************************************)
VARIABLES ck, entry, env, now, dir, req, rev

vars == <<ck, entry, env, now, dir, req, rev>>

(***************************************************************************)
(* Chunker: chunkText(text, chunkSize, overlap), src/server.js 218-233.    *)
(***************************************************************************)
Chars == {"a", "b", " ", "\r", "\n"}

Whitespace == {" ", "\r", "\n"}

Texts == UNION {[1..n -> Chars] : n \in 0..MaxLen}

\* text.replace(/\r\n/g, "\n"): left to right, non-overlapping
RECURSIVE ReplaceCRLF(_)
ReplaceCRLF(s) ==
    IF Len(s) = 0 THEN <<>>
    ELSE IF Len(s) >= 2 /\ s[1] = "\r" /\ s[2] = "\n"
         THEN <<"\n">> \o ReplaceCRLF(SubSeq(s, 3, Len(s)))
         ELSE <<s[1]>> \o ReplaceCRLF(SubSeq(s, 2, Len(s)))

\* a blank test that knows only the empty string
IsBlankOnlyEmpty(s) == Len(s) = 0

\* !clean.trim(): trim() leaves the empty string exactly when every character is whitespace
IsBlank(s) == \A i \in 1..Len(s) : s[i] \in Whitespace

\* clean.slice(start, end), offsets counted from 0
Slice(s, start, end) == SubSeq(s, start + 1, end)

\* a window that stops one character early
ChunkEndShort(start, chunkSize, len) == Min(start + chunkSize - 1, len)

\* const end = Math.min(start + chunkSize, clean.length)
ChunkEnd(start, chunkSize, len) == Min(start + chunkSize, len)

\* a chunker that steps back by twice the overlap
ChunkNextStartTwice(end, overlap) == Max(0, end - 2 * overlap)

\* a chunker that steps back one character more than the overlap
ChunkNextStartOneMore(end, overlap) == Max(0, end - overlap - 1)

\* a chunker that forgets the overlap
ChunkNextStartNoOverlap(end, overlap) == end

\* start = Math.max(0, end - overlap)
ChunkNextStart(end, overlap) == Max(0, end - overlap)

CkIdle ==
    [pc |-> "idle", isNull |-> FALSE, text |-> <<>>, chunkSize |-> 1, overlap |-> 0,
     clean |-> <<>>, start |-> 0, chunks |-> <<>>]

\* lines 219-223: (text || "") normalised, [] returned for blank input, else the loop
\* is entered at 0
ChunkEnter ==
    /\ ck.pc = "call"
    /\ LET clean == ReplaceCRLF(IF ck.isNull THEN <<>> ELSE ck.text) IN
         ck' = [ck EXCEPT !.clean = clean,
                          !.start = 0,
                          !.chunks = <<>>,
                          !.pc = IF IsBlank(clean) THEN "done" ELSE "loop"]
    /\ UNCHANGED <<entry, env, now, dir, req, rev>>

\* lines 225-230: one iteration of the while loop
ChunkLoop ==
    /\ ck.pc = "loop"
    /\ ck.start < Len(ck.clean)
    /\ Len(ck.chunks) < MaxChunks
    /\ LET end == ChunkEnd(ck.start, ck.chunkSize, Len(ck.clean)) IN
         ck' = [ck EXCEPT !.chunks = Append(@, Slice(ck.clean, ck.start, end)),
                          !.start = IF end >= Len(ck.clean) THEN @
                                    ELSE ChunkNextStart(end, ck.overlap),
                          !.pc = IF end >= Len(ck.clean) THEN "done" ELSE "loop"]
    /\ UNCHANGED <<entry, env, now, dir, req, rev>>

\* the windows chunkText cuts from a non-blank text of length len, from offset start on
RECURSIVE ChunkWindows(_, _, _, _)
ChunkWindows(len, chunkSize, overlap, start) ==
    LET end == ChunkEnd(start, chunkSize, len) IN
      IF end >= len THEN << <<start, end>> >>
      ELSE << <<start, end>> >> \o
           ChunkWindows(len, chunkSize, overlap, ChunkNextStart(end, overlap))


(***************************************************************************)
(* Files, names and the uploads directory.                                 *)
(***************************************************************************)
NoName == [stem |-> "", ext |-> ""]

NoDoc == [id |-> "", chars |-> 0, crlf |-> 0, pages |-> 0, parses |-> FALSE]

NoData == [id |-> "", page |-> 0]

NoPath == [kind |-> "none", base |-> 0, name |-> NoName, ts |-> 0, rnd |-> <<0, 0>>, page |-> 0]

\* path.extname(filename).toLowerCase()
ToLower(ext) ==
    CASE ext = ".PDF" -> ".pdf"
      [] ext = ".PNG" -> ".png"
      [] OTHER -> ext

\* getMediaType(filename), src/server.js 197-211
getMediaType(filename) ==
    LET ext == ToLower(filename.ext) IN
      CASE ext = ".pdf" -> "application/pdf"
        [] ext = ".png" -> "image/png"
        [] ext = ".jpg" -> "image/jpeg"
        [] ext = ".jpeg" -> "image/jpeg"
        [] ext = ".gif" -> "image/gif"
        [] ext = ".txt" -> "text/plain"
        [] ext = ".doc" -> "application/msword"
        [] ext = ".docx" -> "application/vnd.openxmlformats-officedocument.wordprocessingml.document"
        [] OTHER -> "application/octet-stream"

\* mediaType.startsWith("image/")
IsImageType(mt) == mt \in {"image/png", "image/jpeg", "image/gif"}

IsPdfType(mt) == mt = "application/pdf"

\* multer diskStorage filename: `${Date.now()}-${file.originalname}` in uploads/
UploadPath(t, originalname) ==
    [kind |-> "upload", base |-> t, name |-> originalname, ts |-> 0,
     rnd |-> <<0, 0>>, page |-> 0]

\* path.basename(pdfPath).replace(/[^a-zA-Z0-9-_]/g, "_"): the dot of the extension becomes "_"
SafeExt(ext) ==
    CASE ext = ".pdf" -> "_pdf"
      [] ext = ".PDF" -> "_PDF"
      [] OTHER -> ext

\* renderPdfPageToJpeg's output name: `${safeBase}-${Date.now()}-${Math.random()...}-page-${n}`;
\* the random token of one call is taken to differ from that of every other call
RenderPath(pdfPath, t, token, pageNumber) ==
    [kind |-> "render", base |-> pdfPath.base,
     name |-> [stem |-> pdfPath.name.stem, ext |-> SafeExt(pdfPath.name.ext)],
     ts |-> t, rnd |-> token, page |-> pageNumber]

Exists(d, p) == \E e \in d : e.path = p

Holds(d, p) == CHOOSE e \in d : e.path = p

\* creating or overwriting the file named p
WriteFile(d, p, owner, doc) ==
    {e \in d : e.path # p} \cup {[path |-> p, owner |-> owner, doc |-> doc]}

\* fs.unlink(p).catch(() => {}): removes the name, and nothing happens when it is absent
Unlink(d, p) == {e \in d : e.path # p}

UnlinkAll(d, ps) == {e \in d : \A i \in 1..Len(ps) : e.path # ps[i]}

(***************************************************************************)
(* Content blocks, diagnostics, calls to the summarization service.        *)
(***************************************************************************)
Block(type, kind, file, i, total, lo, hi, data) ==
    [type |-> type, kind |-> kind, file |-> file, i |-> i, total |-> total,
     lo |-> lo, hi |-> hi, data |-> data]

TextBlock(kind, file) == Block("text", kind, file, 0, 0, 0, 0, NoData)

\* "Please analyze these production brief documents and create ..."
InstructionBlock == TextBlock("instruction", NoName)

ImageBlock(kind, file, doc, page) ==
    Block("image", kind, file, 0, 0, 0, 0, [id |-> doc.id, page |-> page])

DocumentBlock(file, doc) ==
    Block("document", "pdf", file, 0, 0, 0, 0, [id |-> doc.id, page |-> 0])

\* a chunk block that is always labelled as the first chunk
ChunkBlockFirstLabel(file, doc, i, total, w) ==
    Block("text", "chunk", file, 1, total, w[1], w[2], [id |-> doc.id, page |-> 0])

ChunkBlock(file, doc, i, total, w) ==
    Block("text", "chunk", file, i, total, w[1], w[2], [id |-> doc.id, page |-> 0])

\* block.text.startsWith("Please analyze these production brief documents"): every other
\* text block the assembler emits starts with "====="
isGenericInstruction(b) == b.type = "text" /\ b.kind = "instruction"

SelectBlocks(content, type) ==
    LET Test(b) == b.type = type IN SelectSeq(content, Test)

NoReply == [call |-> 0, empty |-> FALSE]

Call(kind, content, idx, of, notes) ==
    [kind |-> kind, content |-> content, idx |-> idx, of |-> of, notes |-> notes]

NoResponse == [status |-> 0, breakdown |-> NoReply, history |-> <<>>]

Outcomes == {"fail", "text", "empty"}

(***************************************************************************)
(* Visual fallback decision and page sampling, src/server.js 349-390.      *)
(***************************************************************************)
\* a decision that does not look at the page count first
shouldRenderVisualAnyPages(textChars, pages) ==
    \/ textChars < VISUAL_FALLBACK_MIN_TEXT_CHARS
    \/ textChars < VISUAL_FALLBACK_MAX_CHARS_PER_PAGE * pages

\* pages > 0 && (textChars < MIN || textChars / pages < MAX_CHARS_PER_PAGE)
shouldRenderVisual(textChars, pages) ==
    /\ pages > 0
    /\ \/ textChars < VISUAL_FALLBACK_MIN_TEXT_CHARS
       \/ textChars < VISUAL_FALLBACK_MAX_CHARS_PER_PAGE * pages

\* [...new Set(s)]: first occurrences, in order
Dedupe(s) ==
    LET Idx == {i \in 1..Len(s) : \A j \in 1..(i - 1) : s[j] # s[i]}
        Rank(i) == Cardinality({j \in Idx : j <= i})
    IN [k \in 1..Cardinality(Idx) |-> s[CHOOSE i \in Idx : Rank(i) = k]]

\* lines 379-389: [1], then 1 + interval, 1 + 2 interval, ... while <= pages;
\* deduplicated and filtered to 1..pages
uniquePages(pages) ==
    LET interval == Max(2, pages \div 5)
        steps == IF pages >= 1 + interval THEN (pages - 1) \div interval ELSE 0
        samplePages == <<1>> \o [k \in 1..steps |-> 1 + k * interval]
        InRange(p) == p >= 1 /\ p <= pages
    IN SelectSeq(Dedupe(samplePages), InRange)

\* a sampling without the render cap
cappedPagesUncapped(pages) == uniquePages(pages)

\* line 390: uniquePages.slice(0, VISUAL_RENDER_MAX_PAGES)
cappedPages(pages) ==
    SubSeq(uniquePages(pages), 1, Min(Len(uniquePages(pages)), VISUAL_RENDER_MAX_PAGES))

\* chunkText(text, PDF_TEXT_CHUNK_CHARS, PDF_TEXT_CHUNK_OVERLAP) of an extracted (trimmed) text:
\* the windows over the normalised text, none when the text is empty
PdfChunks(doc) ==
    IF doc.chars = 0 THEN <<>>
    ELSE ChunkWindows(doc.chars - doc.crlf, PDF_TEXT_CHUNK_CHARS, PDF_TEXT_CHUNK_OVERLAP, 0)


(***************************************************************************)
(* Generate requests.  pc names the operation a request is waiting for:    *)
(*   idle                     not yet issued                               *)
(*   start                    multer has stored the files, handler not run *)
(*   probe, read, render, encode   awaits of createContentWithFiles        *)
(*   direct, notes, final     a summarization call in flight               *)
(*   finally                  response determined, cleanup not yet run     *)
(*   done                     handler finished                             *)
(* failed is the number of the summarization call that was rejected (0:    *)
(* none), extractErrors counts the extractPdfText calls that threw, reads  *)
(* holds what the request read from the uploads directory, attempts lists  *)
(* the iterations of the page loop with their outcome.                     *)
(***************************************************************************)
Reqs == 1..NumReqs

ReqIdle ==
    [pc |-> "idle", files |-> <<>>, cleanupPaths |-> <<>>, content |-> <<>>,
     pdfDiagnostics |-> <<>>, totalExtractedPdfChars |-> 0, canRenderPdfPages |-> FALSE,
     fileIdx |-> 0, pages |-> <<>>, pageIdx |-> 0, curDoc |-> NoDoc, imagePath |-> NoPath,
     renders |-> 0, reads |-> {}, multiPass |-> FALSE, textIdx |-> 0, notes |-> <<>>,
     calls |-> <<>>, failed |-> 0, extractErrors |-> 0, attempts |-> <<>>,
     response |-> NoResponse]

\* { type: "text", text: breakdown }
ReplyBlock(reply) ==
    Block("text", IF reply.empty THEN "emptyReply" ELSE "reply", NoName, reply.call, 0, 0, 0, NoData)

\* res.status(status).json({ error }) without a breakdown
ErrorResponse(status) == [status |-> status, breakdown |-> NoReply, history |-> <<>>]

\* a response whose history holds the user turn alone
OkResponseUserTurnOnly(content, breakdown) ==
    [status |-> 200, breakdown |-> breakdown,
     history |-> << [role |-> "user", content |-> content] >>]

\* lines 619-624: res.json({ breakdown, conversationHistory })
OkResponse(content, breakdown) ==
    [status |-> 200, breakdown |-> breakdown,
     history |-> << [role |-> "user", content |-> content],
                    [role |-> "assistant", content |-> <<ReplyBlock(breakdown)>>] >>]

\* the catch block of the handler (625-627), then on to the finally block
Throw(rec) == [rec EXCEPT !.response = ErrorResponse(500), !.pc = "finally"]

\* message.content?.[0]?.text || "": the reply to the call just answered
ReplyText(rec, outcome) == [call |-> Len(rec.calls), empty |-> (outcome = "empty")]

\* a multi-pass switch that also fires at the threshold itself
UseMultiPassAtThreshold(total) == total >= MULTIPASS_THRESHOLD_CHARS

\* line 603: totalExtractedPdfChars > MULTIPASS_THRESHOLD_CHARS
UseMultiPass(total) == total > MULTIPASS_THRESHOLD_CHARS

\* a notes loop that does not pass over the instruction block
NextNotesIdxAll(textBlocks, i) == i + 1

\* the index of the first text block after position i that gets a notes request (485-492)
NextNotesIdx(textBlocks, i) ==
    LET S == {j \in (i + 1)..Len(textBlocks) : ~isGenericInstruction(textBlocks[j])} IN
      IF S = {} THEN Len(textBlocks) + 1
      ELSE CHOOSE j \in S : \A k \in S : j <= k

\* lines 494-518: the notes request for text block number i (counted from 1)
NotesCall(textBlocks, i) == Call("notes", <<textBlocks[i]>>, i, Len(textBlocks), <<>>)

\* a final request that keeps the original text blocks beside the notes
FinalCallWithRawText(content, notes) ==
    Call("final",
         <<TextBlock("finalInstruction", NoName)>> \o content
           \o <<TextBlock("combinedNotes", NoName)>>,
         0, 0, notes)

\* lines 523-545: the final request: instruction, image blocks, combined notes
FinalCall(content, notes) ==
    Call("final",
         <<TextBlock("finalInstruction", NoName)>> \o SelectBlocks(content, "image")
           \o <<TextBlock("combinedNotes", NoName)>>,
         0, 0, notes)

\* runMultiPassBreakdown from text block i on: issue the next notes request, or the
\* final request when no text block is left
IssueNextPass(rec, i) ==
    LET textBlocks == SelectBlocks(rec.content, "text")
        j == NextNotesIdx(textBlocks, i)
    IN IF j <= Len(textBlocks)
       THEN [rec EXCEPT !.textIdx = j, !.pc = "notes",
                        !.calls = Append(@, NotesCall(textBlocks, j))]
       ELSE [rec EXCEPT !.textIdx = j, !.pc = "final",
                        !.calls = Append(@, FinalCall(rec.content, rec.notes))]

\* a handler that sends the direct request and then starts the multi-pass as well
DecideDirectAndNotes(rec) ==
    IF UseMultiPass(rec.totalExtractedPdfChars)
    THEN IssueNextPass([rec EXCEPT !.multiPass = TRUE,
                                   !.calls = Append(@, Call("direct", rec.content, 0, 0, <<>>))],
                       0)
    ELSE [rec EXCEPT !.pc = "direct",
                     !.calls = Append(@, Call("direct", rec.content, 0, 0, <<>>))]

\* lines 587-617, after createContentWithFiles has returned: multi-pass or one direct request
Decide(rec) ==
    IF UseMultiPass(rec.totalExtractedPdfChars)
    THEN IssueNextPass([rec EXCEPT !.multiPass = TRUE], 0)
    ELSE [rec EXCEPT !.pc = "direct",
                     !.calls = Append(@, Call("direct", rec.content, 0, 0, <<>>))]

\* an assembler that passes over no file
ForwardedAll(f) == TRUE

Forwarded(f) ==
    LET mt == getMediaType(f.originalname) IN IsImageType(mt) \/ IsPdfType(mt)

\* a loop that goes on with the last forwarded file instead of the next one
ContinueFromLast(rec, i) ==
    LET S == {j \in (i + 1)..Len(rec.files) : Forwarded(rec.files[j])} IN
      IF S = {} THEN Decide([rec EXCEPT !.fileIdx = Len(rec.files) + 1])
      ELSE [rec EXCEPT !.fileIdx = CHOOSE j \in S : \A k \in S : j >= k, !.pc = "read"]

\* the for loop of createContentWithFiles moves past file number i: files of other media
\* types are passed over (468), and after the last file the handler goes on
Continue(rec, i) ==
    LET S == {j \in (i + 1)..Len(rec.files) : Forwarded(rec.files[j])} IN
      IF S = {} THEN Decide([rec EXCEPT !.fileIdx = Len(rec.files) + 1])
      ELSE [rec EXCEPT !.fileIdx = CHOOSE j \in S : \A k \in S : j <= k, !.pc = "read"]

\* an assembler that puts the chunk blocks of a PDF at the head of the content, right
\* after the instruction
FinishPdfChunksFirst(rec, f, doc) ==
    LET chunks == PdfChunks(doc)
        total == Len(chunks)
        blocks == IF total = 0 THEN <<TextBlock("notext", f.originalname)>>
                  ELSE [i \in 1..total |-> ChunkBlock(f.originalname, doc, i, total, chunks[i])]
    IN [rec EXCEPT !.pdfDiagnostics =
                       Append(@, [filename |-> f.originalname, numpages |-> doc.pages,
                                  textLength |-> doc.chars, chunkCount |-> total]),
                   !.content = <<Head(@)>> \o blocks \o Tail(@),
                   !.curDoc = NoDoc, !.pages = <<>>, !.pageIdx = 0]

\* lines 433-463: the diagnostics entry, then the chunk blocks or the no-text block
FinishPdf(rec, f, doc) ==
    LET chunks == PdfChunks(doc)
        total == Len(chunks)
        blocks == IF total = 0 THEN <<TextBlock("notext", f.originalname)>>
                  ELSE [i \in 1..total |-> ChunkBlock(f.originalname, doc, i, total, chunks[i])]
    IN [rec EXCEPT !.pdfDiagnostics =
                       Append(@, [filename |-> f.originalname, numpages |-> doc.pages,
                                  textLength |-> doc.chars, chunkCount |-> total]),
                   !.content = @ \o blocks,
                   !.curDoc = NoDoc, !.pages = <<>>, !.pageIdx = 0]

\* the render loop moves past the current page (399-429)
AfterPage(rec) ==
    LET f == rec.files[rec.fileIdx] IN
      IF rec.pageIdx < Len(rec.pages)
      THEN [rec EXCEPT !.pageIdx = @ + 1, !.imagePath = NoPath, !.pc = "render"]
      ELSE Continue(
             FinishPdf([rec EXCEPT !.imagePath = NoPath,
                                   !.content = Append(@, TextBlock("vend", f.originalname))],
                       f, rec.curDoc),
             rec.fileIdx)


\* a page loop that ends at the first page that fails
PageFailedEndsLoop(rec) == AfterPage([rec EXCEPT !.pageIdx = Len(rec.pages)])

\* lines 418-423: the catch block of the page loop logs, and the loop goes on
PageFailed(rec) == AfterPage(rec)

\* one iteration of the page loop and how it ended
Attempt(rec, ok) ==
    [file |-> rec.fileIdx, page |-> rec.pages[rec.pageIdx], ok |-> ok]

(***************************************************************************)
(* The uploads a request may carry: an original name and the bytes.        *)
(***************************************************************************)
PdfA == [stem |-> "a", ext |-> ".pdf"]
PdfB == [stem |-> "b", ext |-> ".PDF"]
Png == [stem |-> "p", ext |-> ".png"]
Txt == [stem |-> "n", ext |-> ".txt"]
Docx == [stem |-> "d", ext |-> ".docx"]
Bin == [stem |-> "x", ext |-> ".bin"]

PdfDoc(id, chars, crlf, pages) ==
    [id |-> id, chars |-> chars, crlf |-> crlf, pages |-> pages, parses |-> TRUE]

Bytes(id) == [id |-> id, chars |-> 0, crlf |-> 0, pages |-> 0, parses |-> FALSE]

Uploads ==
    { [originalname |-> PdfA, doc |-> PdfDoc("scan", 500, 0, 3)],
      [originalname |-> PdfA, doc |-> PdfDoc("rich", 2000, 20, 3)],
      [originalname |-> PdfA, doc |-> PdfDoc("tiny", 1, 0, 0)],
      [originalname |-> PdfA, doc |-> Bytes("corrupt")],
      [originalname |-> PdfB, doc |-> PdfDoc("below", MULTIPASS_THRESHOLD_CHARS - 1, 0, 40)],
      [originalname |-> PdfB, doc |-> PdfDoc("at", MULTIPASS_THRESHOLD_CHARS, 0, 40)],
      [originalname |-> PdfB, doc |-> PdfDoc("dense", 5000, 0, 10)],
      [originalname |-> PdfB, doc |-> PdfDoc("blank", 0, 0, 0)],
      [originalname |-> Png, doc |-> Bytes("png")],
      [originalname |-> Txt, doc |-> Bytes("txt")],
      [originalname |-> Docx, doc |-> Bytes("docx")],
      [originalname |-> Bin, doc |-> Bytes("bin")] }

\* text lengths around the limits of the visual fallback decision
TextLengths ==
    { 0, 500, VISUAL_FALLBACK_MIN_TEXT_CHARS - 1, VISUAL_FALLBACK_MIN_TEXT_CHARS,
      VISUAL_FALLBACK_MAX_CHARS_PER_PAGE * MaxPages - 1,
      VISUAL_FALLBACK_MAX_CHARS_PER_PAGE * MaxPages, 5000 }

\* one PDF for every text length of the grid and every page count up to MaxPages; a
\* page count of 0 is also what numpages || 0 makes of an unknown one
GridUploads ==
    { [originalname |-> PdfA, doc |-> PdfDoc("grid", c, 0, n)] :
        c \in TextLengths, n \in 0..MaxPages }

\* the uploads of concurrently issued requests: the same original names in each
ConcUploads ==
    { [originalname |-> PdfA, doc |-> PdfDoc("scan1", 100, 0, 1)],
      [originalname |-> Png, doc |-> Bytes("png")] }

FileLists(choices) == UNION {[1..n -> choices] : n \in 0..MaxFilesPerReq}

RECURSIVE StoreAll(_, _, _, _)
StoreAll(d, r, files, fs) ==
    IF Len(files) = 0 THEN d
    ELSE StoreAll(WriteFile(d, files[1].path, r, fs[1].doc), r, Tail(files), Tail(fs))

\* upload.array("files", MAX_FILES): multer stores every file of the request under
\* uploads/ and hands the handler req.files
Upload(r, fs) ==
    /\ req[r].pc = "idle"
    /\ Len(fs) <= MAX_FILES
    /\ LET files == [i \in 1..Len(fs) |->
                       [originalname |-> fs[i].originalname,
                        path |-> UploadPath(now, fs[i].originalname)]]
       IN /\ dir' = StoreAll(dir, r, files, fs)
          /\ req' = [req EXCEPT ![r] = [@ EXCEPT !.files = files, !.pc = "start"]]
    /\ UNCHANGED <<ck, entry, env, now, rev>>

\* Date.now() moves on
Tick ==
    /\ now < MaxTime
    /\ now' = now + 1
    /\ UNCHANGED <<ck, entry, env, dir, req, rev>>

(***************************************************************************)
(* POST /api/generate-breakdown of src/server.js, 555-634.                 *)
(***************************************************************************)
\* a handler that does not test the credential before it assembles the content
ValidateWithoutKeyTest(r) ==
    /\ entry = "server"
    /\ req[r].pc = "start"
    /\ LET rec == [req[r] EXCEPT
                     !.cleanupPaths = [i \in 1..Len(req[r].files) |-> req[r].files[i].path]]
       IN req' = [req EXCEPT ![r] =
                    IF Len(rec.files) = 0
                    THEN [rec EXCEPT !.response = ErrorResponse(400), !.pc = "finally"]
                    ELSE [rec EXCEPT !.content = <<InstructionBlock>>, !.pc = "probe"]]
    /\ UNCHANGED <<ck, entry, env, now, dir, rev>>

\* lines 559-585 and 313-323: validation, then createContentWithFiles up to its first await
Validate(r) ==
    /\ entry = "server"
    /\ req[r].pc = "start"
    /\ LET rec == [req[r] EXCEPT
                     !.cleanupPaths = [i \in 1..Len(req[r].files) |-> req[r].files[i].path]]
       IN req' = [req EXCEPT ![r] =
                    IF Len(rec.files) = 0
                    THEN [rec EXCEPT !.response = ErrorResponse(400), !.pc = "finally"]
                    ELSE IF ~env.apiKey
                    THEN [rec EXCEPT !.response = ErrorResponse(500), !.pc = "finally"]
                    ELSE [rec EXCEPT !.content = <<InstructionBlock>>, !.pc = "probe"]]
    /\ UNCHANGED <<ck, entry, env, now, dir, rev>>

\* line 323 and 291-298: isPdftoppmAvailable() answers, the loop over the files starts
Probe(r) ==
    /\ req[r].pc = "probe"
    /\ req' = [req EXCEPT ![r] =
                 Continue([@ EXCEPT !.canRenderPdfPages = env.pdftoppm], 0)]
    /\ UNCHANGED <<ck, entry, env, now, dir, rev>>

\* line 344: extractPdfText throws inside createContentWithFiles, which has no handler
\* for it: the exception reaches the catch block of the request handler
ExtractFailed(rec, f) == Throw(rec)

\* an assembler that starts the page loop without looking at canRenderPdfPages
PdfExtractedRendersAnyway(rec, f, doc) ==
    LET rec1 == [rec EXCEPT !.totalExtractedPdfChars = @ + doc.chars] IN
      IF shouldRenderVisual(doc.chars, doc.pages)
      THEN [rec1 EXCEPT !.content = Append(@, TextBlock("vstart", f.originalname)),
                        !.curDoc = doc,
                        !.pages = cappedPages(doc.pages),
                        !.pageIdx = 1,
                        !.pc = "render"]
      ELSE Continue(FinishPdf(rec1, f, doc), rec.fileIdx)

\* lines 344-397: a PDF whose text was extracted
PdfExtracted(rec, f, doc) ==
    LET rec1 == [rec EXCEPT !.totalExtractedPdfChars = @ + doc.chars] IN
      IF shouldRenderVisual(doc.chars, doc.pages)
      THEN IF ~rec.canRenderPdfPages
           THEN Continue(
                  FinishPdf([rec1 EXCEPT !.content =
                                           Append(@, TextBlock("notice", f.originalname))],
                            f, doc),
                  rec.fileIdx)
           ELSE [rec1 EXCEPT !.content = Append(@, TextBlock("vstart", f.originalname)),
                             !.curDoc = doc,
                             !.pages = cappedPages(doc.pages),
                             !.pageIdx = 1,
                             !.pc = "render"]
      ELSE Continue(FinishPdf(rec1, f, doc), rec.fileIdx)

\* lines 326-344: the file of the current iteration is read (fileToBase64 or extractPdfText)
ReadFile(r) ==
    /\ entry = "server"
    /\ req[r].pc = "read"
    /\ LET rec0 == req[r]
           f == rec0.files[rec0.fileIdx]
           mt == getMediaType(f.originalname)
       IN IF ~Exists(dir, f.path)
          THEN req' = [req EXCEPT ![r] = Throw(rec0)]
          ELSE LET e == Holds(dir, f.path)
                   rec == [rec0 EXCEPT !.reads = @ \cup {e}]
               IN req' = [req EXCEPT ![r] =
                    IF IsImageType(mt)
                    THEN Continue([rec EXCEPT !.content =
                                     Append(@, ImageBlock("upload", f.originalname, e.doc, 0))],
                                  rec.fileIdx)
                    ELSE IF ~env.parseShape \/ ~e.doc.parses
                    THEN ExtractFailed([rec EXCEPT !.extractErrors = @ + 1], f)
                    ELSE PdfExtracted(rec, f, e.doc)]
    /\ UNCHANGED <<ck, entry, env, now, dir, rev>>


\* the bytes of a rendered page: the page of the PDF that pdftoppm was given
PageBytes(doc, pageNumber) ==
    [id |-> doc.id, chars |-> 0, crlf |-> 0, pages |-> pageNumber, parses |-> FALSE]

\* lines 401-405 and 248-289: renderPdfPageToJpeg for the current sampled page.  pdftoppm
\* fails (ok = FALSE, or the PDF is gone) or leaves one JPEG under a name of its call
RenderPage(r) ==
    /\ req[r].pc = "render"
    /\ \E ok \in BOOLEAN :
         LET rec == req[r]
             f == rec.files[rec.fileIdx]
             pageNum == rec.pages[rec.pageIdx]
             out == RenderPath(f.path, now, <<r, rec.renders + 1>>, pageNum)
         IN IF ok /\ Exists(dir, f.path)
            THEN /\ dir' = WriteFile(dir, out, r, PageBytes(Holds(dir, f.path).doc, pageNum))
                 /\ req' = [req EXCEPT ![r] =
                              [rec EXCEPT !.imagePath = out, !.renders = @ + 1,
                                          !.pc = "encode"]]
            ELSE /\ dir' = dir
                 /\ req' = [req EXCEPT ![r] =
                              PageFailed([rec EXCEPT !.renders = @ + 1,
                                                     !.attempts = Append(@, Attempt(rec, FALSE))])]
    /\ UNCHANGED <<ck, entry, env, now, rev>>

\* lines 406 and 418-423: fileToBase64(imagePath) throws; the catch block logs, and the
\* unlink of line 417 is never reached
EncodeFailed(d, rec) == d

\* lines 406-417: the rendered page is read and encoded, pushed as an image block, and
\* its file unlinked
EncodePage(r) ==
    /\ req[r].pc = "encode"
    /\ \E ok \in BOOLEAN :
         LET rec == req[r]
             f == rec.files[rec.fileIdx]
         IN IF ok /\ Exists(dir, rec.imagePath)
            THEN LET e == Holds(dir, rec.imagePath) IN
                 /\ dir' = Unlink(dir, rec.imagePath)
                 /\ req' = [req EXCEPT ![r] =
                              AfterPage([rec EXCEPT
                                 !.reads = @ \cup {e},
                                 !.attempts = Append(@, Attempt(rec, TRUE)),
                                 !.content = Append(@, ImageBlock("page", f.originalname,
                                                                   e.doc, e.doc.pages))])]
            ELSE /\ dir' = EncodeFailed(dir, rec)
                 /\ req' = [req EXCEPT ![r] =
                              PageFailed([rec EXCEPT !.attempts = Append(@, Attempt(rec, FALSE))])]
    /\ UNCHANGED <<ck, entry, env, now, rev>>

\* lines 609-624: the direct synthesis request is answered
DirectReply(r) ==
    /\ entry = "server"
    /\ req[r].pc = "direct"
    /\ \E outcome \in Outcomes :
         LET rec == req[r] IN
           req' = [req EXCEPT ![r] =
                     IF outcome = "fail" THEN Throw([rec EXCEPT !.failed = Len(rec.calls)])
                     ELSE [rec EXCEPT !.response =
                                        OkResponse(rec.content, ReplyText(rec, outcome)),
                                      !.pc = "finally"]]
    /\ UNCHANGED <<ck, entry, env, now, dir, rev>>

\* a notes loop that goes on after a failed notes request, with an empty note in its place
NotesFailedSkipped(rec) ==
    IssueNextPass([rec EXCEPT !.notes = Append(@, [call |-> Len(rec.calls), empty |-> TRUE])],
                  rec.textIdx)

\* line 494: anthropic.messages.create rejects inside runMultiPassBreakdown, which has no
\* handler for it
NotesFailed(rec) == Throw(rec)

\* lines 494-521: a notes request is answered; the loop goes on to the next text block.
\* The note is msg.content?.[0]?.text || "": an answer without text is the note "", one
\* of the texts an answer may carry, and takes the same path as any other
NotesReply(r) ==
    /\ req[r].pc = "notes"
    /\ \E outcome \in {"fail", "text"} :
         LET rec == req[r] IN
           req' = [req EXCEPT ![r] =
                     IF outcome = "fail" THEN NotesFailed([rec EXCEPT !.failed = Len(rec.calls)])
                     ELSE IssueNextPass([rec EXCEPT !.notes = Append(@, ReplyText(rec, outcome))],
                                        rec.textIdx)]
    /\ UNCHANGED <<ck, entry, env, now, dir, rev>>

\* lines 540-547 and 619-624: the final synthesis request is answered
FinalReply(r) ==
    /\ req[r].pc = "final"
    /\ \E outcome \in Outcomes :
         LET rec == req[r] IN
           req' = [req EXCEPT ![r] =
                     IF outcome = "fail" THEN Throw([rec EXCEPT !.failed = Len(rec.calls)])
                     ELSE [rec EXCEPT !.response =
                                        OkResponse(rec.content, ReplyText(rec, outcome)),
                                      !.pc = "finally"]]
    /\ UNCHANGED <<ck, entry, env, now, dir, rev>>

\* lines 628-632: for (const p of cleanupPaths) await fs.unlink(p).catch(() => {})
Cleanup(d, ps) == UnlinkAll(d, ps)

Finally(r) ==
    /\ req[r].pc = "finally"
    /\ dir' = Cleanup(dir, req[r].cleanupPaths)
    /\ req' = [req EXCEPT ![r] = [@ EXCEPT !.pc = "done"]]
    /\ UNCHANGED <<ck, entry, env, now, rev>>


(***************************************************************************)
(* POST /api/generate-breakdown of src/unnamed/part_000, 139-186, with its *)
(* createContentWithFiles, 97-136.                                         *)
(***************************************************************************)
\* the catch block, 182-185: a 500 response and nothing else
LegacyThrow(rec) == [rec EXCEPT !.response = ErrorResponse(500), !.pc = "done"]

\* the loop of createContentWithFiles moves past file number i (109-133); after the last
\* file the handler sends the one synthesis request (154-162)
LegacyContinue(rec, i) ==
    LET S == {j \in (i + 1)..Len(rec.files) : Forwarded(rec.files[j])} IN
      IF S = {}
      THEN [rec EXCEPT !.fileIdx = Len(rec.files) + 1, !.pc = "direct",
                       !.calls = Append(@, Call("direct", rec.content, 0, 0, <<>>))]
      ELSE [rec EXCEPT !.fileIdx = CHOOSE j \in S : \A k \in S : j <= k, !.pc = "read"]

\* lines 141-151 and 97-106
LegacyValidate(r) ==
    /\ entry = "legacy"
    /\ req[r].pc = "start"
    /\ req' = [req EXCEPT ![r] =
                 IF Len(@.files) = 0
                 THEN [@ EXCEPT !.response = ErrorResponse(400), !.pc = "done"]
                 ELSE LegacyContinue([@ EXCEPT !.content = <<InstructionBlock>>], 0)]
    /\ UNCHANGED <<ck, entry, env, now, dir, rev>>

\* lines 110-132: the file is read and pushed as an image or a document block
LegacyReadFile(r) ==
    /\ entry = "legacy"
    /\ req[r].pc = "read"
    /\ LET rec0 == req[r]
           f == rec0.files[rec0.fileIdx]
           mt == getMediaType(f.originalname)
       IN IF ~Exists(dir, f.path)
          THEN req' = [req EXCEPT ![r] = LegacyThrow(rec0)]
          ELSE LET e == Holds(dir, f.path)
                   rec == [rec0 EXCEPT !.reads = @ \cup {e}]
               IN req' = [req EXCEPT ![r] =
                    LegacyContinue(
                      [rec EXCEPT !.content =
                         Append(@, IF IsImageType(mt)
                                   THEN ImageBlock("upload", f.originalname, e.doc, 0)
                                   ELSE DocumentBlock(f.originalname, e.doc))],
                      rec.fileIdx)]
    /\ UNCHANGED <<ck, entry, env, now, dir, rev>>

\* lines 154-185: the synthesis request is answered.  Without an API key the client
\* rejects; message.content[0].text throws when the reply has no content block.  Only
\* the success path unlinks the uploads (172-175)
LegacyReply(r) ==
    /\ entry = "legacy"
    /\ req[r].pc = "direct"
    /\ \E outcome \in Outcomes :
         LET rec == req[r] IN
           /\ env.apiKey \/ outcome = "fail"
           /\ IF outcome = "text"
              THEN /\ dir' = UnlinkAll(dir, [i \in 1..Len(rec.files) |-> rec.files[i].path])
                   /\ req' = [req EXCEPT ![r] =
                                [rec EXCEPT !.response =
                                              OkResponse(rec.content, ReplyText(rec, outcome)),
                                            !.pc = "done"]]
              ELSE /\ dir' = dir
                   /\ req' = [req EXCEPT ![r] =
                                LegacyThrow([rec EXCEPT !.failed =
                                               IF outcome = "fail" THEN Len(rec.calls) ELSE 0])]
    /\ UNCHANGED <<ck, entry, env, now, rev>>

(***************************************************************************)
(* POST /api/revise-breakdown: src/server.js 641-693 and                   *)
(* src/unnamed/part_000 189-236.                                           *)
(***************************************************************************)
Turn(role, tag, revisionRequest, currentBreakdown, reply) ==
    [role |-> role, tag |-> tag, revisionRequest |-> revisionRequest,
     currentBreakdown |-> currentBreakdown, reply |-> reply]

\* turns a client may send in conversationHistory: the server does not look into them
HistTurns ==
    { Turn("user", "u", "", "", NoReply), Turn("assistant", "a", "", "", NoReply) }

Histories == UNION {[1..n -> HistTurns] : n \in 0..MaxHist}

\* a body field may be absent
FieldValues == {"missing", "", "x"}

\* a test that takes the empty string for a value
FalsyOnlyMissing(v) == v = "missing"

\* !value
Falsy(v) == v \in {"missing", ""}

RevIdle ==
    [pc |-> "idle", hasHistory |-> FALSE, conversationHistory |-> <<>>,
     revisionRequest |-> "", currentBreakdown |-> "", messages |-> <<>>, sent |-> <<>>,
     response |-> NoResponse]

\* a revise handler that sends only the new turn
ReviseMessagesWithoutHistory(history, revisionRequest, currentBreakdown) ==
    << Turn("user", "revise", revisionRequest, currentBreakdown, NoReply) >>

\* lines 656-669: [...(conversationHistory || []), { role: "user", content: [...] }]
ReviseMessages(history, revisionRequest, currentBreakdown) ==
    history \o << Turn("user", "revise", revisionRequest, currentBreakdown, NoReply) >>

\* lines 643-676 (part_000 191-217): validation, the messages, the request is sent
ReviseStart(h, hasH, rr, cb) ==
    /\ rev.pc = "idle"
    /\ hasH \/ h = <<>>
    /\ LET r0 == [rev EXCEPT !.hasHistory = hasH, !.conversationHistory = h,
                             !.revisionRequest = rr, !.currentBreakdown = cb]
       IN rev' =
            IF Falsy(rr) \/ Falsy(cb)
            THEN [r0 EXCEPT !.response = ErrorResponse(400), !.pc = "done"]
            ELSE IF (entry = "server" /\ ~env.apiKey) \/ (entry = "legacy" /\ ~hasH)
            THEN [r0 EXCEPT !.response = ErrorResponse(500), !.pc = "done"]
            ELSE LET messages == ReviseMessages(h, rr, cb) IN
                   [r0 EXCEPT !.messages = messages, !.sent = Append(@, messages),
                              !.pc = "call"]
    /\ UNCHANGED <<ck, entry, env, now, dir, req>>

\* lines 678-688 (part_000 219-230): the request is answered
ReviseReply ==
    /\ rev.pc = "call"
    /\ \E outcome \in Outcomes :
         /\ env.apiKey \/ outcome = "fail"
         /\ rev' =
              IF outcome = "fail" \/ (entry = "legacy" /\ outcome = "empty")
              THEN [rev EXCEPT !.response = ErrorResponse(500), !.pc = "done"]
              ELSE LET revisedBreakdown == [call |-> Len(rev.sent), empty |-> (outcome = "empty")]
                   IN [rev EXCEPT
                         !.response =
                            [status |-> 200, breakdown |-> revisedBreakdown,
                             history |-> rev.messages \o
                                 << Turn("assistant", "revised", "", "", revisedBreakdown) >>],
                         !.pc = "done"]
    /\ UNCHANGED <<ck, entry, env, now, dir, req>>

(***************************************************************************)
(* Specifications.                                                         *)
(***************************************************************************)
EnvSet == [apiKey : BOOLEAN, pdftoppm : BOOLEAN, parseShape : BOOLEAN]

InitIdle ==
    /\ ck = CkIdle
    /\ now = 0
    /\ dir = {}
    /\ req = [r \in Reqs |-> ReqIdle]
    /\ rev = RevIdle

\* one generate request, on either entry point, in any environment
Init ==
    /\ InitIdle
    /\ entry \in {"server", "legacy"}
    /\ env \in EnvSet

ServerStep(r) ==
    \/ Validate(r)
    \/ Probe(r)
    \/ ReadFile(r)
    \/ RenderPage(r)
    \/ EncodePage(r)
    \/ DirectReply(r)
    \/ NotesReply(r)
    \/ FinalReply(r)
    \/ Finally(r)

LegacyStep(r) ==
    \/ LegacyValidate(r)
    \/ LegacyReadFile(r)
    \/ LegacyReply(r)

Next ==
    \/ \E fs \in FileLists(Uploads) : Upload(1, fs)
    \/ \E r \in Reqs : ServerStep(r)
    \/ \E r \in Reqs : LegacyStep(r)

Spec == Init /\ [][Next]_vars

\* concurrently issued generate requests on src/server.js
InitConc ==
    /\ InitIdle
    /\ entry = "server"
    /\ env = [apiKey |-> TRUE, pdftoppm |-> TRUE, parseShape |-> TRUE]

\* no list of ConcUploads reaches the multi-pass threshold
ConcStep(r) ==
    \/ Validate(r)
    \/ Probe(r)
    \/ ReadFile(r)
    \/ RenderPage(r)
    \/ EncodePage(r)
    \/ DirectReply(r)
    \/ Finally(r)

NextConc ==
    \/ Tick
    \/ \E r \in Reqs : \E fs \in FileLists(ConcUploads) : Upload(r, fs)
    \/ \E r \in Reqs : ConcStep(r)

SpecConc == InitConc /\ [][NextConc]_vars

\* the content assembly of src/server.js for one PDF of the grid, with and without
\* pdftoppm on the host
InitVisual ==
    /\ InitIdle
    /\ entry = "server"
    /\ env \in {e \in EnvSet : e.apiKey /\ e.parseShape}

AssembleStep(r) ==
    \/ Validate(r)
    \/ Probe(r)
    \/ ReadFile(r)
    \/ RenderPage(r)
    \/ EncodePage(r)

NextVisual ==
    \/ \E f \in GridUploads : Upload(1, <<f>>)
    \/ \E r \in Reqs : AssembleStep(r)

SpecVisual == InitVisual /\ [][NextVisual]_vars

\* revise requests, with the uploads of a generate request in the uploads directory
NextRevise ==
    \/ \E fs \in FileLists(ConcUploads) : Upload(1, fs)
    \/ \E h \in Histories, hasH \in BOOLEAN, rr \in FieldValues, cb \in FieldValues :
         ReviseStart(h, hasH, rr, cb)
    \/ ReviseReply

SpecRevise == Init /\ [][NextRevise]_vars

\* chunkText on every text within the bounds and on null, with every window and overlap
\* within the bounds
InitChunk ==
    /\ ck \in [pc : {"call"}, isNull : {FALSE}, text : Texts, chunkSize : 0..MaxWin,
               overlap : 0..MaxWin, clean : {<<>>}, start : {0}, chunks : {<<>>}]
              \cup [pc : {"call"}, isNull : {TRUE}, text : {<<>>}, chunkSize : 0..MaxWin,
                    overlap : 0..MaxWin, clean : {<<>>}, start : {0}, chunks : {<<>>}]
    /\ entry = "server"
    /\ env = [apiKey |-> TRUE, pdftoppm |-> TRUE, parseShape |-> TRUE]
    /\ now = 0
    /\ dir = {}
    /\ req = [r \in Reqs |-> ReqIdle]
    /\ rev = RevIdle

NextChunk == ChunkEnter \/ ChunkLoop

SpecChunk == InitChunk /\ [][NextChunk]_vars

\* chunkText runs on: the interpreter takes the next step of the loop whenever there
\* is one
SpecChunkFair == InitChunk /\ [][NextChunk]_vars /\ WF_vars(NextChunk)


(***************************************************************************)
(* Properties.                                                             *)
(***************************************************************************)
\* the uploads of request r that are still in the uploads directory
UploadsLeft(r) == {e \in dir : e.owner = r /\ e.path.kind = "upload"}

\* the rendered page images of request r that are in the uploads directory
RendersLeft(r) == {e \in dir : e.owner = r /\ e.path.kind = "render"}

Completed(r) == req[r].pc = "done"

\* C1: once a generate request has completed, on whatever exit path, none of the files
\* uploaded for it is left in the uploads directory.
C1_CleanupOnEveryExit == \A r \in Reqs : Completed(r) => UploadsLeft(r) = {}

\* C1 on src/server.js alone, where the finally block runs on every exit path
C1_ServerCleanup ==
    \A r \in Reqs : (entry = "server" /\ Completed(r)) => UploadsLeft(r) = {}

\* a request of src/server.js that failed after its uploads were stored, and is complete
C1_ServerWitness ==
    \E r \in Reqs : /\ entry = "server" /\ Completed(r)
                    /\ req[r].files # <<>> /\ req[r].response.status = 500

\* C2: a failed text extraction is treated as a PDF without text: the request it
\* happens in is not answered with a failure because of it.  (A request that has
\* sent no summarization call can have failed for no other reason.)
C2_ExtractionFailureNotFatal ==
    \A r \in Reqs :
        (entry = "server" /\ req[r].extractErrors > 0 /\ req[r].calls = <<>>)
            => req[r].response.status # 500

\* C3 as stated: at the threshold minus one the request takes the single-pass path, at
\* or above the threshold the multi-pass path.
C3_AtOrAboveIsMultiPass ==
    \A r \in Reqs :
        (entry = "server" /\ req[r].calls # <<>>) =>
            /\ req[r].totalExtractedPdfChars = MULTIPASS_THRESHOLD_CHARS - 1
                  => (~req[r].multiPass /\ req[r].calls[1].kind = "direct")
            /\ req[r].totalExtractedPdfChars >= MULTIPASS_THRESHOLD_CHARS
                  => (req[r].multiPass /\ req[r].calls[1].kind = "notes")

\* C3 amended: up to and including the threshold the request sends one direct synthesis
\* request and no other; strictly above it, notes requests and a final request, never
\* a direct one.
C3_AboveIsMultiPass ==
    \A r \in Reqs :
        (entry = "server" /\ req[r].calls # <<>>) =>
            /\ req[r].totalExtractedPdfChars <= MULTIPASS_THRESHOLD_CHARS
                  => /\ ~req[r].multiPass
                     /\ Len(req[r].calls) = 1
                     /\ req[r].calls[1].kind = "direct"
            /\ req[r].totalExtractedPdfChars > MULTIPASS_THRESHOLD_CHARS
                  => /\ req[r].multiPass
                     /\ req[r].calls[1].kind = "notes"
                     /\ \A k \in 1..Len(req[r].calls) : req[r].calls[k].kind # "direct"

\* a request whose PDF text is exactly as long as the threshold has sent its direct request
C3_Witness ==
    \E r \in Reqs : /\ entry = "server"
                    /\ req[r].totalExtractedPdfChars = MULTIPASS_THRESHOLD_CHARS
                    /\ req[r].calls # <<>>
                    /\ req[r].calls[1].kind = "direct"

InFlight(r) == req[r].pc \notin {"idle", "done"}

\* the names of the temporary files request r has created and not yet given up
TempNames(r) ==
    {req[r].files[i].path : i \in 1..Len(req[r].files)}
        \cup (IF req[r].imagePath = NoPath THEN {} ELSE {req[r].imagePath})

\* C4: two requests in flight never hold a temporary file of the same name, and a request
\* reads only files it has written itself.
C4_TempFilesPrivate ==
    \A r \in Reqs :
        /\ \A s \in Reqs \ {r} :
              (InFlight(r) /\ InFlight(s)) => TempNames(r) \cap TempNames(s) = {}
        /\ \A e \in req[r].reads : e.owner = r

\* C5: a rendered page image is in the uploads directory only while its own page is
\* being encoded: it is gone when the assembly moves on, whether the encoding succeeded
\* or not.
C5_RenderedPageDeleted ==
    \A r \in Reqs :
        \A e \in RendersLeft(r) : req[r].pc = "encode" /\ e.path = req[r].imagePath


CallsOfKind(r, kind) ==
    LET Test(c) == c.kind = kind IN SelectSeq(req[r].calls, Test)

\* the text blocks of the assembled content that are not the instruction block, in order
NotedBlocks(r) ==
    LET Test(b) == b.type = "text" /\ b.kind # "instruction" IN SelectSeq(req[r].content, Test)

NotesFailedIn(r) ==
    /\ req[r].multiPass
    /\ req[r].failed > 0
    /\ req[r].calls[req[r].failed].kind = "notes"

\* C6: once a notes request of the multi-pass path has failed, the failed request stays
\* the last summarization request (no later notes request, no final request), the
\* response is a 500 without breakdown or history, and the completed request has left
\* none of its uploads behind.
C6_NotesFailureIsFatal ==
    \A r \in Reqs :
        NotesFailedIn(r) =>
            /\ Len(req[r].calls) = req[r].failed
            /\ CallsOfKind(r, "final") = <<>>
            /\ req[r].pc \in {"finally", "done"}
            /\ req[r].response = ErrorResponse(500)
            /\ Completed(r) => UploadsLeft(r) = {}

\* a completed request whose first notes request failed while other text blocks were
\* still waiting for theirs
C6_Witness ==
    \E r \in Reqs : /\ NotesFailedIn(r) /\ Completed(r)
                    /\ req[r].failed < Len(NotedBlocks(r))
                    /\ req[r].files # <<>>

\* C7: the multi-pass path sends at most one final request, as its last request and only
\* when every notes request has been answered; a multi-pass request answered with a
\* breakdown has sent exactly one.  The final request holds the fixed instruction, the
\* image blocks of the assembled content in their order, and the combined notes: no
\* text block of the assembled content is in it.
C7_FinalRequestFromNotesOnly ==
    \A r \in Reqs :
        req[r].multiPass =>
            LET finals == CallsOfKind(r, "final")
                n == Len(req[r].calls)
            IN /\ Len(finals) <= 1
               /\ req[r].response.status = 200 => Len(finals) = 1
               /\ Len(finals) = 1 =>
                    /\ req[r].calls[n] = finals[1]
                    /\ Len(CallsOfKind(r, "notes")) = n - 1
                    /\ Len(finals[1].notes) = n - 1
                    /\ finals[1].content =
                          <<TextBlock("finalInstruction", NoName)>>
                             \o SelectBlocks(req[r].content, "image")
                             \o <<TextBlock("combinedNotes", NoName)>>
                    /\ \A i \in 1..Len(finals[1].content) :
                          \A j \in 1..Len(req[r].content) :
                             req[r].content[j].type = "text"
                                => finals[1].content[i] # req[r].content[j]

\* a multi-pass request with page images in its content was answered with a breakdown
C7_Witness ==
    \E r \in Reqs : /\ req[r].multiPass
                    /\ req[r].response.status = 200
                    /\ SelectBlocks(req[r].content, "image") # <<>>

\* C8: the notes requests are, in order, one for each text block of the assembled content
\* other than the instruction block, each holding that block alone; when the final
\* request is sent every such block has had its request, and the combined notes list
\* the answers in the order of the blocks.
C8_NotesPerBlockInOrder ==
    \A r \in Reqs :
        req[r].multiPass =>
            LET noted == NotedBlocks(r)
                sent == CallsOfKind(r, "notes")
                finals == CallsOfKind(r, "final")
            IN /\ Len(sent) <= Len(noted)
               /\ \A k \in 1..Len(sent) :
                     /\ sent[k].content = <<noted[k]>>
                     /\ req[r].calls[k] = sent[k]
               /\ \A k \in 1..Len(req[r].notes) : req[r].notes[k].call = k
               /\ finals # <<>> =>
                     /\ Len(sent) = Len(noted)
                     /\ finals[1].notes = req[r].notes
                     /\ Len(req[r].notes) = Len(noted)

\* the final request of a request with several noted blocks has been sent
C8_Witness ==
    \E r \in Reqs : /\ req[r].multiPass
                    /\ CallsOfKind(r, "final") # <<>>
                    /\ Len(NotedBlocks(r)) >= 3

\* the history a revise request is taken to carry: [] when the field is absent
InputHistory == IF rev.hasHistory THEN rev.conversationHistory ELSE <<>>

ReviseSucceeded == rev.pc = "done" /\ rev.response.status = 200

\* C9: a successful revise call with history H returns a history of length len(H)+2 whose
\* first len(H) entries are H, followed by the user turn with the revision request and
\* the current breakdown and by the assistant turn with the revised breakdown; the one
\* synthesis request it sent carried H followed by that user turn.
C9_ReviseHistoryGrowth ==
    ReviseSucceeded =>
        LET H == InputHistory
            out == rev.response.history
            userTurn == Turn("user", "revise", rev.revisionRequest, rev.currentBreakdown, NoReply)
        IN /\ Len(out) = Len(H) + 2
           /\ SubSeq(out, 1, Len(H)) = H
           /\ out[Len(H) + 1] = userTurn
           /\ out[Len(H) + 2] = Turn("assistant", "revised", "", "", rev.response.breakdown)
           /\ rev.sent = << H \o <<userTurn>> >>

\* a revise call with a non-empty history has succeeded
C9_Witness == ReviseSucceeded /\ Len(InputHistory) >= 1

\* the first chunk in full, every later chunk without its first overlap characters
RECURSIVE DropOverlaps(_, _)
DropOverlaps(chunks, overlap) ==
    IF Len(chunks) = 0 THEN <<>>
    ELSE SubSeq(chunks[1], overlap + 1, Len(chunks[1])) \o DropOverlaps(Tail(chunks), overlap)

Reconstruct(chunks, overlap) ==
    IF Len(chunks) = 0 THEN <<>>
    ELSE chunks[1] \o DropOverlaps(Tail(chunks), overlap)

ChunkDone == ck.pc = "done" /\ ck.overlap < ck.chunkSize

\* C10 as stated: for 0 <= O < W, the chunks of T with the overlaps removed concatenate
\* to T.
C10_ReconstructsInput == ChunkDone => Reconstruct(ck.chunks, ck.overlap) = ck.text

\* C10 amended: for 0 <= O < W, with T' the text T after every CR LF pair is replaced by
\* LF: when T' has a non-whitespace character the chunks with the overlaps removed
\* concatenate to T', and when T' is empty or whitespace-only there are no chunks.
C10_ReconstructsNormalisedInput ==
    ChunkDone =>
        IF IsBlank(ReplaceCRLF(ck.text))
        THEN ck.chunks = <<>>
        ELSE Reconstruct(ck.chunks, ck.overlap) = ReplaceCRLF(ck.text)

\* a text with a CR LF pair was cut into several overlapping chunks
C10_Witness ==
    /\ ChunkDone
    /\ ck.overlap > 0
    /\ Len(ck.chunks) >= 2
    /\ ReplaceCRLF(ck.text) # ck.text


\* C11 as stated: a text T no longer than the window W comes back as the one chunk T.
C11_SingleChunkIsInput ==
    (ck.pc = "done" /\ ~ck.isNull /\ Len(ck.text) <= ck.chunkSize) => ck.chunks = <<ck.text>>

\* C11 amended: for a text T no longer than the window W, with T' the text T after every
\* CR LF pair is replaced by LF: when T' has a non-whitespace character chunkText returns
\* the one chunk T' (which is T when T holds no CR LF pair), whatever the overlap, and
\* when T' is empty or whitespace-only it returns no chunk.
C11_SingleChunkIsNormalisedInput ==
    (ck.pc = "done" /\ ~ck.isNull /\ Len(ck.text) <= ck.chunkSize) =>
        IF IsBlank(ReplaceCRLF(ck.text))
        THEN ck.chunks = <<>>
        ELSE ck.chunks = <<ReplaceCRLF(ck.text)>>

\* a text exactly as long as the window, holding a CR LF pair, gave its one chunk
C11_Witness ==
    /\ ck.pc = "done" /\ ~ck.isNull
    /\ Len(ck.text) = ck.chunkSize
    /\ Len(ck.chunks) = 1
    /\ ck.chunks[1] # ck.text

\* C12: chunkText returns the empty sequence for null, for the empty text and for a text
\* of whitespace only, and no sequence it returns holds an empty chunk.
C12_BlankGivesNoChunks ==
    ck.pc = "done" =>
        /\ (ck.isNull \/ \A i \in 1..Len(ck.text) : ck.text[i] \in Whitespace)
               => ck.chunks = <<>>
        /\ \A k \in 1..Len(ck.chunks) : Len(ck.chunks[k]) > 0

\* chunkText has returned for a whitespace-only text longer than the window
C12_Witness ==
    /\ ck.pc = "done" /\ ~ck.isNull
    /\ Len(ck.text) > ck.chunkSize /\ ck.chunkSize > 0
    /\ \A i \in 1..Len(ck.text) : ck.text[i] \in Whitespace
    /\ ck.chunks = <<>>

\* chunkText has returned for null
C12_NullWitness == ck.pc = "done" /\ ck.isNull /\ ck.chunks = <<>>

\* the chunks are the windows of text t that start at 0, (W - O), 2(W - O), ..., each W
\* long but for the last, which ends where t ends
IsWindowsOf(chunks, t, W, O) ==
    LET n == Len(chunks)
        StartOf(k) == (k - 1) * (W - O)
    IN /\ n >= 1
       /\ \A k \in 1..n :
             /\ StartOf(k) < Len(t)
             /\ chunks[k] = Slice(t, StartOf(k), Min(StartOf(k) + W, Len(t)))
             /\ Len(chunks[k]) <= W
       /\ \A k \in 1..(n - 1) :
             /\ Len(chunks[k]) = W
             /\ Len(chunks[k + 1]) >= O
             /\ SubSeq(chunks[k], W - O + 1, W) = SubSeq(chunks[k + 1], 1, O)
       /\ StartOf(n) + Len(chunks[n]) = Len(t)

\* C13 as stated: for 0 <= O < W and a text longer than W the chunks are the windows of
\* the text.
C13_WindowsOfInput ==
    (ChunkDone /\ ~ck.isNull /\ Len(ck.text) > ck.chunkSize)
        => IsWindowsOf(ck.chunks, ck.text, ck.chunkSize, ck.overlap)

\* C13 amended: for 0 <= O < W, with T' the text T after every CR LF pair is replaced by
\* LF: when T' is longer than W and has a non-whitespace character, the chunks are the
\* windows [start, min(start+W, len(T'))) of T' from offset 0 on, each next start the
\* previous end minus O; there are at least two, every chunk but the last has exactly W
\* characters, none has more, the last O characters of a chunk are the first O of the
\* next, and the last chunk ends where T' ends.
C13_WindowsOfNormalisedInput ==
    (/\ ChunkDone /\ ~ck.isNull
     /\ Len(ReplaceCRLF(ck.text)) > ck.chunkSize
     /\ ~IsBlank(ReplaceCRLF(ck.text)))
        => /\ IsWindowsOf(ck.chunks, ReplaceCRLF(ck.text), ck.chunkSize, ck.overlap)
           /\ Len(ck.chunks) >= 2

\* a text was cut into windows that overlap, the last one shorter than W
C13_Witness ==
    /\ ChunkDone /\ ~ck.isNull
    /\ ck.overlap > 0
    /\ Len(ck.chunks) >= 2
    /\ Len(ck.chunks[Len(ck.chunks)]) < ck.chunkSize


\* the upload request r has read, if it has read one
UploadsRead(r) == {e \in req[r].reads : e.path.kind = "upload"}

\* the content of request r holds the opening of a visual fallback: the marker before
\* the page images, or the notice that pages cannot be rendered
Triggered(r) ==
    \E k \in 1..Len(req[r].content) : req[r].content[k].kind \in {"vstart", "notice"}

\* C14: for a PDF with textChars characters of text on pageCount pages the visual
\* fallback is triggered exactly when pageCount > 0 and textChars is below the minimum
\* or textChars/pageCount below the minimum density; 500 characters on 10 pages trigger
\* it, 5000 characters on 10 pages do not, and no PDF of 0 pages does.
C14_VisualFallbackDecision ==
    \A r \in Reqs : \A e \in UploadsRead(r) :
        LET textChars == e.doc.chars
            pageCount == e.doc.pages
        IN /\ Triggered(r) <=>
                 /\ pageCount > 0
                 /\ \/ textChars < VISUAL_FALLBACK_MIN_TEXT_CHARS
                    \/ textChars \div pageCount < VISUAL_FALLBACK_MAX_CHARS_PER_PAGE
           /\ (pageCount = 10 /\ textChars = 500) => Triggered(r)
           /\ (pageCount = 10 /\ textChars = 5000) => ~Triggered(r)
           /\ pageCount = 0 => ~Triggered(r)

\* the PDF of 500 characters on 10 pages was read and the fallback triggered
C14_Witness ==
    \E r \in Reqs : \E e \in UploadsRead(r) :
        e.doc.pages = 10 /\ e.doc.chars = 500 /\ Triggered(r)

\* C15: the pages sampled for a PDF of pageCount >= 1 pages are 1, 1+i, 1+2i, ... with
\* i = max(2, floor(pageCount/5)), as far as they are <= pageCount and no more than
\* VISUAL_RENDER_MAX_PAGES of them: page 1 comes first, every page is in 1..pageCount,
\* none comes twice, and for 20 pages they are 1, 5, 9, 13, 17 before the cap.
C15_PageSampling ==
    \A r \in Reqs :
        req[r].pc \in {"render", "encode"} =>
            LET pageCount == req[r].curDoc.pages
                pages == req[r].pages
                i == IF pageCount \div 5 > 2 THEN pageCount \div 5 ELSE 2
                inRange == {q \in 1..pageCount : (q - 1) % i = 0}
            IN /\ pageCount >= 1
               /\ Len(pages) = Min(Cardinality(inRange), VISUAL_RENDER_MAX_PAGES)
               /\ \A k \in 1..Len(pages) : pages[k] = 1 + (k - 1) * i
               /\ pages[1] = 1
               /\ \A k \in 1..Len(pages) : pages[k] \in 1..pageCount
               /\ \A k, l \in 1..Len(pages) : k # l => pages[k] # pages[l]
               /\ Len(pages) <= VISUAL_RENDER_MAX_PAGES
               /\ pageCount = 20 =>
                     /\ uniquePages(pageCount) = <<1, 5, 9, 13, 17>>
                     /\ pages = <<1, 5, 9, 13, 17>>

\* the last sampled page of a PDF of 20 pages is being rendered
C15_Witness ==
    \E r \in Reqs : /\ req[r].pc = "render"
                    /\ req[r].curDoc.pages = 20
                    /\ req[r].pageIdx = 5
                    /\ req[r].pages[req[r].pageIdx] = 17

\* the render cap has cut the sample of a PDF
C15_CapWitness ==
    \E r \in Reqs : /\ req[r].pc = "render"
                    /\ Len(req[r].pages) = VISUAL_RENDER_MAX_PAGES
                    /\ Len(uniquePages(req[r].curDoc.pages)) > VISUAL_RENDER_MAX_PAGES


\* the original names of the files of request r differ from one another
DistinctNames(r) ==
    \A i, j \in 1..Len(req[r].files) :
        i # j => req[r].files[i].originalname # req[r].files[j].originalname

\* C16: a text block that carries extracted text of a PDF is labelled, in its start and
\* end marker, with the name of the upload the text was extracted from; and the blocks
\* made for one file (visual start marker, page images, visual end marker, notice,
\* chunk blocks) are contiguous: between two blocks of a file there is no block of
\* another file.
C16_FileIsolation ==
    \A r \in Reqs :
        entry = "server" =>
            LET c == req[r].content IN
              /\ \A k \in 1..Len(c) :
                    (c[k].type = "text" /\ c[k].kind = "chunk") =>
                        /\ \E j \in 1..Len(req[r].files) :
                              req[r].files[j].originalname = c[k].file
                        /\ \E e \in UploadsRead(r) :
                              e.path.name = c[k].file /\ e.doc.id = c[k].data.id
              /\ DistinctNames(r) =>
                    \A i, k \in 1..Len(c) :
                        (i < k /\ c[i].file # NoName /\ c[i].file = c[k].file) =>
                            \A j \in i..k : c[j].file = c[i].file

\* the content of a request holds the page images and a chunk of one PDF, then the
\* chunks of a PDF of another name
C16_Witness ==
    \E r \in Reqs :
        /\ entry = "server" /\ DistinctNames(r)
        /\ \E i, j, k \in 1..Len(req[r].content) :
              /\ i < j /\ j < k
              /\ req[r].content[i].kind = "page"
              /\ req[r].content[j].kind = "chunk"
              /\ req[r].content[j].file = req[r].content[i].file
              /\ req[r].content[k].kind = "chunk"
              /\ req[r].content[k].file # req[r].content[i].file

\* what request r has read from the stored upload of its file number j
DocOf(r, j) == (CHOOSE e \in UploadsRead(r) : e.path = req[r].files[j].path).doc

\* the page loop of request r is at work on file number j
InPageLoop(r, j) == req[r].pc \in {"render", "encode"} /\ req[r].fileIdx = j

\* the files of request r that were read as PDFs and call for the visual fallback
FallbackFiles(r) ==
    {j \in 1..Len(req[r].files) :
        /\ IsPdfType(getMediaType(req[r].files[j].originalname))
        /\ j < req[r].fileIdx \/ InPageLoop(r, j)
        /\ LET d == DocOf(r, j) IN
             /\ d.pages > 0
             /\ \/ d.chars < VISUAL_FALLBACK_MIN_TEXT_CHARS
                \/ d.chars \div d.pages < VISUAL_FALLBACK_MAX_CHARS_PER_PAGE}

BlocksOfKind(r, kind) ==
    LET Test(b) == b.kind = kind IN SelectSeq(req[r].content, Test)

AttemptsOn(r, j) ==
    LET Test(a) == a.file = j IN SelectSeq(req[r].attempts, Test)

\* C17: in the page loop of a visual fallback a page whose rendering or encoding fails
\* leaves no image block, while the pages that succeed leave theirs, in order; every
\* sampled page is attempted, in order, whatever happened to the pages before it; the
\* visual end marker and the text blocks of the PDF follow; and the request is not
\* answered with a failure unless the extraction or a summarization request failed or
\* the credential is missing.
C17_PageFailureSkipped ==
    \A r \in Reqs :
        (entry = "server" /\ req[r].canRenderPdfPages) =>
            LET c == req[r].content
                images == BlocksOfKind(r, "page")
                succeeded == LET Test(a) == a.ok IN SelectSeq(req[r].attempts, Test)
            IN /\ Len(images) = Len(succeeded)
               /\ \A k \in 1..Len(images) :
                     /\ images[k].data.page = succeeded[k].page
                     /\ images[k].file = req[r].files[succeeded[k].file].originalname
               /\ \A j \in FallbackFiles(r) :
                     LET sampled == cappedPages(DocOf(r, j).pages)
                         tried == AttemptsOn(r, j)
                         n == IF InPageLoop(r, j) THEN req[r].pageIdx - 1 ELSE Len(sampled)
                     IN /\ Len(tried) = n
                        /\ \A k \in 1..n : tried[k].page = sampled[k]
               /\ Len(BlocksOfKind(r, "vstart")) =
                     Len(BlocksOfKind(r, "vend"))
                        + (IF req[r].pc \in {"render", "encode"} THEN 1 ELSE 0)
               /\ Len(BlocksOfKind(r, "vstart")) = Cardinality(FallbackFiles(r))
               /\ \A k \in 1..Len(c) :
                     c[k].kind = "vend" =>
                        /\ k < Len(c)
                        /\ c[k + 1].file = c[k].file
                        /\ \/ c[k + 1].kind = "notext"
                           \/ c[k + 1].kind = "chunk" /\ c[k + 1].i = 1
               /\ req[r].response.status = 500 =>
                     (req[r].failed > 0 \/ req[r].extractErrors > 0 \/ ~env.apiKey)

\* a request was answered with a breakdown although the first sampled page of its PDF
\* had failed; the next page was rendered and is in the content
C17_Witness ==
    \E r \in Reqs :
        /\ entry = "server" /\ Completed(r)
        /\ req[r].response.status = 200
        /\ \E k, l \in 1..Len(req[r].attempts) :
              /\ k < l
              /\ req[r].attempts[k].file = req[r].attempts[l].file
              /\ ~req[r].attempts[k].ok
              /\ req[r].attempts[l].ok
        /\ BlocksOfKind(r, "page") # <<>>

\* C18: without pdftoppm on the host, a PDF that calls for the visual fallback gets
\* exactly one notice block, directly followed by its text blocks (the chunks, or the
\* no-extractable-text block); no page is rendered, and the content holds no page
\* image and no visual start or end marker.
C18_NoticeWithoutRasterizer ==
    \A r \in Reqs :
        (entry = "server" /\ req[r].pc \notin {"idle", "start", "probe"}
           /\ ~req[r].canRenderPdfPages) =>
            LET c == req[r].content IN
              /\ req[r].renders = 0
              /\ req[r].attempts = <<>>
              /\ {e \in dir : e.path.kind = "render"} = {}
              /\ \A k \in 1..Len(c) : c[k].kind \notin {"vstart", "vend", "page"}
              /\ Len(BlocksOfKind(r, "notice")) = Cardinality(FallbackFiles(r))
              /\ \A k \in 1..Len(c) :
                    c[k].kind = "notice" =>
                       /\ k < Len(c)
                       /\ c[k + 1].file = c[k].file
                       /\ \/ c[k + 1].kind = "notext"
                          \/ c[k + 1].kind = "chunk" /\ c[k + 1].i = 1

\* a request on a host without pdftoppm was answered with a breakdown; its content
\* holds the notice for a PDF and, right after it, the first chunk of that PDF
C18_Witness ==
    \E r \in Reqs :
        /\ entry = "server" /\ ~env.pdftoppm
        /\ req[r].response.status = 200
        /\ \E k \in 1..(Len(req[r].content) - 1) :
              /\ req[r].content[k].kind = "notice"
              /\ req[r].content[k + 1].kind = "chunk"


\* what a generate request leaves untouched when it does no file processing
NothingProcessed(r) ==
    /\ req[r].content = <<>>
    /\ req[r].reads = {}
    /\ req[r].renders = 0
    /\ req[r].attempts = <<>>
    /\ req[r].pdfDiagnostics = <<>>
    /\ req[r].extractErrors = 0
    /\ req[r].calls = <<>>
    /\ {e \in dir : e.path.kind = "render"} = {}

\* C19 as stated: a generate request made without the credential is answered with a
\* 500 before any file processing.
C19_NoCredentialIs500 ==
    \A r \in Reqs :
        (entry = "server" /\ ~env.apiKey /\ req[r].pc \notin {"idle", "start"}) =>
            /\ req[r].pc \in {"finally", "done"}
            /\ req[r].response.status = 500
            /\ NothingProcessed(r)

\* C19 amended: a generate request made without the credential is answered as soon as
\* the handler runs, with a 500 when it carries a file and with a 400 when it carries
\* none; no availability probe, no text extraction, no page rendering and no
\* summarization request happens for it.
C19_NoCredentialShortCircuits ==
    \A r \in Reqs :
        (entry = "server" /\ ~env.apiKey /\ req[r].pc \notin {"idle", "start"}) =>
            /\ req[r].pc \in {"finally", "done"}
            /\ req[r].response.status = (IF req[r].files = <<>> THEN 400 ELSE 500)
            /\ req[r].response.breakdown = NoReply
            /\ NothingProcessed(r)

\* a request with a PDF, made without the credential, was answered with a 500
C19_Witness ==
    \E r \in Reqs :
        /\ entry = "server" /\ ~env.apiKey /\ Completed(r)
        /\ \E j \in 1..Len(req[r].files) :
              IsPdfType(getMediaType(req[r].files[j].originalname))
        /\ req[r].response.status = 500

\* the body of the revise request lacks the revision request or the current breakdown,
\* or holds it as the empty string
ReviseFieldMissing ==
    \/ rev.revisionRequest \in {"missing", ""}
    \/ rev.currentBreakdown \in {"missing", ""}

ReviseRejected ==
    (rev.pc # "idle" /\ ReviseFieldMissing) =>
        /\ rev.pc = "done"
        /\ rev.response.status = 400
        /\ rev.response.breakdown = NoReply
        /\ rev.sent = <<>>

\* a step of the revise request leaves the uploads directory as it is
ReviseLeavesFiles == (rev' # rev) => (dir' = dir /\ req' = req)

\* C20: a revise request without a revision request or without a current breakdown
\* (absent or empty) is answered with a 400 and sends no synthesis request; and no
\* step of a revise request, valid or not, creates or deletes a file.
C20_ReviseValidation == []ReviseRejected /\ [][ReviseLeavesFiles]_vars

\* a revise request with an empty revision request was rejected while uploads of a
\* generate request were in the uploads directory
C20_Witness ==
    /\ rev.pc = "done"
    /\ rev.revisionRequest = ""
    /\ rev.currentBreakdown = "x"
    /\ rev.response.status = 400
    /\ dir # {}


\* the files of request r that are neither an image nor a PDF
OtherFiles(r) ==
    {j \in 1..Len(req[r].files) :
        getMediaType(req[r].files[j].originalname)
            \notin {"image/png", "image/jpeg", "image/gif", "application/pdf"}}

\* the sum of the text lengths of the diagnostics entries
RECURSIVE SumTextLength(_)
SumTextLength(ds) ==
    IF Len(ds) = 0 THEN 0 ELSE ds[1].textLength + SumTextLength(Tail(ds))

C22_TwoTurnHistory ==
    \A r \in Reqs :
        req[r].response.status = 200 =>
            LET h == req[r].response.history
                b == req[r].response.breakdown
            IN /\ Len(h) = 2
               /\ h[1] = [role |-> "user", content |-> req[r].content]
               /\ h[2].role = "assistant"
               /\ Len(h[2].content) = 1
               /\ h[2].content[1].type = "text"
               /\ h[2].content[1].i = b.call
               /\ h[2].content[1].kind = (IF b.empty THEN "emptyReply" ELSE "reply")
               /\ b.call = Len(req[r].calls)
               /\ req[r].calls[b.call].kind \in {"direct", "final"}

\* a request on the multi-pass path was answered with a breakdown and its history
C22_Witness ==
    \E r \in Reqs :
        /\ req[r].multiPass
        /\ req[r].response.status = 200
        /\ Len(req[r].response.history) = 2
        /\ Len(req[r].content) >= 4


\* the assembly of the content of request r has ended without an exception
Assembled(r) == req[r].fileIdx = Len(req[r].files) + 1

\* the number of the first file of request r that has the original name of block b
FileOfBlock(r, b) ==
    CHOOSE j \in 1..Len(req[r].files) :
        /\ req[r].files[j].originalname = b.file
        /\ \A k \in 1..(j - 1) : req[r].files[k].originalname # b.file

\* C23: the assembled content starts with the instruction block, and the blocks of the
\* forwarded files follow in the order in which the files were submitted; for a PNG
\* followed by a PDF of 2000 characters on 3 pages the content is the instruction, the
\* image block of the PNG and the chunk block(s) of the PDF, with no block of a visual
\* fallback, and there is one diagnostics entry, with chunkCount >= 1.
C23_ContentOrder ==
    \A r \in Reqs :
        LET c == req[r].content IN
          /\ c # <<>> =>
                /\ c[1] = InstructionBlock
                /\ \A k \in 2..Len(c) :
                      /\ c[k].kind # "instruction"
                      /\ \E j \in 1..Len(req[r].files) :
                            req[r].files[j].originalname = c[k].file
          /\ DistinctNames(r) =>
                \A i, k \in 2..Len(c) :
                    i < k => FileOfBlock(r, c[i]) <= FileOfBlock(r, c[k])
          /\ (/\ entry = "server" /\ Assembled(r)
              /\ Len(req[r].files) = 2
              /\ req[r].files[1].originalname = Png
              /\ \E e \in UploadsRead(r) :
                    /\ e.path = req[r].files[2].path
                    /\ e.doc.parses /\ e.doc.chars = 2000 /\ e.doc.pages = 3)
               => /\ Len(c) >= 3
                  /\ c[1] = InstructionBlock
                  /\ c[2].type = "image" /\ c[2].kind = "upload" /\ c[2].file = Png
                  /\ c[2].data.id = "png"
                  /\ \A k \in 3..Len(c) :
                        /\ c[k].type = "text" /\ c[k].kind = "chunk"
                        /\ c[k].file = req[r].files[2].originalname
                        /\ c[k].i = k - 2 /\ c[k].total = Len(c) - 2
                  /\ Len(req[r].pdfDiagnostics) = 1
                  /\ req[r].pdfDiagnostics[1].chunkCount = Len(c) - 2
                  /\ req[r].pdfDiagnostics[1].chunkCount >= 1

\* the content for a PNG followed by the PDF of 2000 characters on 3 pages was
\* assembled and sent
C23_Witness ==
    \E r \in Reqs :
        /\ entry = "server" /\ Assembled(r)
        /\ Len(req[r].files) = 2
        /\ req[r].files[1].originalname = Png
        /\ \E e \in UploadsRead(r) : e.doc.chars = 2000 /\ e.doc.pages = 3
        /\ Len(req[r].content) = 3
        /\ req[r].calls # <<>>

\* the blocks that hold the extracted text of the PDFs, in the order of the content
PdfTextBlocks(r) ==
    LET Test(b) == b.kind \in {"chunk", "notext"} IN SelectSeq(req[r].content, Test)

\* the labels the text blocks of the PDFs of the diagnostics entries ds are to carry
RECURSIVE ExpectedLabels(_)
ExpectedLabels(ds) ==
    IF Len(ds) = 0 THEN <<>>
    ELSE (IF ds[1].chunkCount = 0
          THEN << <<"notext", ds[1].filename, 0, 0>> >>
          ELSE [i \in 1..ds[1].chunkCount |-> <<"chunk", ds[1].filename, i, ds[1].chunkCount>>])
         \o ExpectedLabels(Tail(ds))

\* the PDFs of request r that the assembler is done with
ProcessedPdfs(r) ==
    {j \in 1..Len(req[r].files) :
        /\ getMediaType(req[r].files[j].originalname) = "application/pdf"
        /\ j < req[r].fileIdx}

\* C24: there is exactly one diagnostics entry for every PDF the assembler is done with;
\* the text blocks of the PDFs are, entry by entry, the blocks labelled CHUNK 1/n ... n/n
\* with n the chunkCount of the entry, or the one no-extractable-text block when the
\* chunkCount is 0; they come after the blocks of the visual fallback of their PDF; and
\* the total of extracted characters is the sum of the text lengths of the entries
\* (while the page loop of a PDF is at work, whose entry is recorded only after the
\* loop, the total is ahead by the text length of that PDF).
C24_DiagnosticsAndChunkLabels ==
    \A r \in Reqs :
        entry = "server" =>
            LET c == req[r].content
                ds == req[r].pdfDiagnostics
                blocks == PdfTextBlocks(r)
                labels == ExpectedLabels(ds)
            IN /\ Len(ds) = Cardinality(ProcessedPdfs(r))
               /\ Len(blocks) = Len(labels)
               /\ \A k \in 1..Len(blocks) :
                     <<blocks[k].kind, blocks[k].file, blocks[k].i, blocks[k].total>> = labels[k]
               /\ \A k \in 1..Len(c) :
                     c[k].kind \in {"vstart", "page", "vend", "notice"} =>
                        /\ k < Len(c) \/ req[r].pc \in {"render", "encode"}
                        /\ \A l \in 1..(k - 1) :
                              (c[l].kind \in {"chunk", "notext"} /\ c[l].file = c[k].file)
                                 => ~DistinctNames(r)
               /\ req[r].totalExtractedPdfChars =
                     SumTextLength(ds)
                        + (IF req[r].pc \in {"render", "encode"} THEN req[r].curDoc.chars ELSE 0)

\* the content of a request holds the blocks of a visual fallback and then the chunk
\* blocks of a PDF cut into several chunks, and the assembly has ended
C24_Witness ==
    \E r \in Reqs :
        /\ entry = "server" /\ Assembled(r)
        /\ \E k \in 1..Len(req[r].content) : req[r].content[k].kind = "vend"
        /\ \E k \in 1..Len(req[r].content) :
              req[r].content[k].kind = "chunk" /\ req[r].content[k].i >= 3
        /\ Len(req[r].pdfDiagnostics) = 2


\* chunkText has returned
ChunkReturned == ck.pc = "done"

\* between two iterations of the loop the start offset grows, when the overlap is
\* smaller than the window
StartGrows ==
    (ck.pc = "loop" /\ ck'.pc = "loop" /\ ck.overlap < ck.chunkSize) => ck'.start > ck.start

\* with an overlap that is not smaller than the window the loop comes back to the
\* offset it was at
StartStays ==
    (ck.pc = "loop" /\ ck'.pc = "loop" /\ ck.overlap >= ck.chunkSize) => ck'.start = ck.start

\* with an overlap that is not smaller than the window, chunkText has not returned for
\* a text (normalised, not blank) longer than the window: nothing in the function
\* tests the overlap against the window
NoReturnWithoutProgress ==
    (/\ ck.overlap >= ck.chunkSize
     /\ ~ck.isNull
     /\ Len(ReplaceCRLF(ck.text)) > ck.chunkSize
     /\ \E i \in 1..Len(ck.text) : ck.text[i] \notin Whitespace)
        => ~ChunkReturned

\* C25: for 0 <= O < W chunkText returns for every text, and the start offset grows from
\* each iteration of its loop to the next; the function does not test O < W, and with
\* O >= W the loop comes back to the same offset again and again and the function does
\* not return for a text longer than the window.
C25_ChunkTextTerminates ==
    /\ (ck.overlap < ck.chunkSize) ~> ChunkReturned
    /\ [][StartGrows]_vars
    /\ [][StartStays]_vars
    /\ []NoReturnWithoutProgress

\* chunkText has returned after three or more iterations with an overlap
C25_Witness ==
    /\ ChunkReturned
    /\ ck.overlap > 0 /\ ck.overlap < ck.chunkSize
    /\ Len(ck.chunks) >= 3

\* the loop of chunkText is at the offset it started from, with as many chunks pushed
\* as the model follows
C25_StuckWitness ==
    /\ ck.pc = "loop" /\ ck.start = 0
    /\ ck.overlap >= ck.chunkSize
    /\ Len(ck.chunks) = MaxChunks

\* the summarization requests of request r come in one of the three shapes
CallShape(r) ==
    LET calls == req[r].calls
        n == Len(calls)
    IN \/ n = 0
       \/ /\ n = 1
          /\ calls[1].kind = "direct"
          /\ calls[1].content = req[r].content
          /\ ~req[r].multiPass
       \/ /\ n >= 1
          /\ req[r].multiPass
          /\ \A k \in 1..(n - 1) : calls[k].kind = "notes"
          /\ calls[n].kind \in {"notes", "final"}

\* a request that has sent no summarization request and is answered was refused by the
\* validation or has failed in the assembly
NoCallMeansRefused(r) ==
    (req[r].pc \in {"finally", "done"} /\ req[r].calls = <<>>) =>
        \/ req[r].files = <<>> /\ req[r].response.status = 400
        \/ ~env.apiKey /\ req[r].response.status = 500
        \/ req[r].extractErrors > 0 /\ req[r].response.status = 500

\* once the response of a request is determined its list of summarization requests
\* stays as it is
NoCallAfterResponse ==
    \A r \in Reqs :
        req[r].pc \in {"finally", "done"} => req'[r].calls = req[r].calls

\* C26: a generate request sends no summarization request at all (refused by the
\* validation, or failed in the assembly), or exactly one direct request with the full
\* assembled content, or notes requests followed by at most one final request; a
\* direct request and a notes request are never sent by the same request; and none is
\* sent once the response is determined.
C26_CallShapes ==
    /\ [](\A r \in Reqs : entry = "server" => (CallShape(r) /\ NoCallMeansRefused(r)))
    /\ [](\A r \in Reqs :
            \A k, l \in 1..Len(req[r].calls) :
               ~(req[r].calls[k].kind = "direct" /\ req[r].calls[l].kind = "notes"))
    /\ [][NoCallAfterResponse]_vars

\* a request on the multi-pass path has sent its notes requests and the final one and
\* is complete
C26_Witness ==
    \E r \in Reqs :
        /\ entry = "server" /\ Completed(r)
        /\ Len(req[r].calls) >= 3
        /\ req[r].calls[Len(req[r].calls)].kind = "final"

=============================================================================
